---- MODULE Spec2Model ----
(***************************************************************************)
(* Model of the imgproxy URL builder (src/url.go): the option registry,    *)
(* the OptionSet of a builder (ImgproxyURLData.Options), SetOption and the *)
(* typed builders that call it, and Generate with its registry pass, its   *)
(* leftover pass, the path encoder and the signature generator.            *)
(*                                                                         *)
(* Go strings are TLA+ strings; a []byte is a sequence of 0..255.          *)
(***************************************************************************)
EXTENDS Integers, Sequences, FiniteSets, TLC

VARIABLES cfg, key, salt, Options, last, order, first

vars == <<cfg, key, salt, Options, last, order, first>>

----------------------------------------------------------------------------
(* Bytes of strings.                                                       *)

\* The printable ASCII characters in byte order: bytes 32..95 and 97..126
\* (byte 96, the backquote, cannot be written in a TLA+ string).
AsciiLow == " !\"#$%&'()*+,-./0123456789:;<=>?@ABCDEFGHIJKLMNOPQRSTUVWXYZ[\\]^_"
AsciiHigh == "abcdefghijklmnopqrstuvwxyz{|}~"

CharAt(s, n) == SubSeq(s, n, n)

\* The byte of a one-character string.
Ord ==
  [c \in {CharAt(AsciiLow, n) : n \in 1..Len(AsciiLow)}
           \cup {CharAt(AsciiHigh, n) : n \in 1..Len(AsciiHigh)} |->
     IF \E n \in 1..Len(AsciiLow) : CharAt(AsciiLow, n) = c
     THEN 31 + (CHOOSE n \in 1..Len(AsciiLow) : CharAt(AsciiLow, n) = c)
     ELSE 96 + (CHOOSE n \in 1..Len(AsciiHigh) : CharAt(AsciiHigh, n) = c)]

\* []byte(s)
Bytes(s) == [n \in 1..Len(s) |-> Ord[CharAt(s, n)]]

RECURSIVE StrLess(_, _)
\* a < b on Go strings: byte-wise lexicographic order (what sort.Strings uses).
StrLess(a, b) ==
  IF Len(a) = 0 THEN Len(b) > 0
  ELSE IF Len(b) = 0 THEN FALSE
  ELSE IF Head(a) = Head(b) THEN StrLess(Tail(a), Tail(b))
  ELSE Ord[Head(a)] < Ord[Head(b)]

RECURSIVE Itoa(_)
\* strconv.Itoa, and the %d verb of fmt.Sprintf.
Itoa(n) ==
  IF n < 0 THEN "-" \o Itoa(0 - n)
  ELSE IF n < 10 THEN CharAt("0123456789", n + 1)
  ELSE Itoa(n \div 10) \o CharAt("0123456789", (n % 10) + 1)

----------------------------------------------------------------------------
(* encoding/base64, unpadded.                                              *)

StdAlphabet == "ABCDEFGHIJKLMNOPQRSTUVWXYZabcdefghijklmnopqrstuvwxyz0123456789+/"
URLAlphabet == "ABCDEFGHIJKLMNOPQRSTUVWXYZabcdefghijklmnopqrstuvwxyz0123456789-_"

RECURSIVE RawEncode(_, _)
\* Encoding.EncodeToString without padding: three bytes give four characters,
\* a last group of one byte gives two and of two bytes gives three.
RawEncode(alphabet, src) ==
  LET ch(v) == CharAt(alphabet, v + 1)
      n == Len(src)
  IN  IF n = 0 THEN ""
      ELSE IF n = 1 THEN
        ch(src[1] \div 4) \o ch((src[1] % 4) * 16)
      ELSE IF n = 2 THEN
        ch(src[1] \div 4) \o ch((src[1] % 4) * 16 + src[2] \div 16)
          \o ch((src[2] % 16) * 4)
      ELSE
        ch(src[1] \div 4) \o ch((src[1] % 4) * 16 + src[2] \div 16)
          \o ch((src[2] % 16) * 4 + src[3] \div 64) \o ch(src[3] % 64)
          \o RawEncode(alphabet, SubSeq(src, 4, n))

----------------------------------------------------------------------------
(* The option registry.                                                    *)

allOptions ==
  <<
       [long |-> "resize", short |-> "rs"],
       [long |-> "size", short |-> "s"],
       [long |-> "resizing_type", short |-> "rt"],
       [long |-> "resizing_algorithm", short |-> "ra"],
       [long |-> "width", short |-> "w"],
       [long |-> "height", short |-> "h"],
       [long |-> "min-width", short |-> "mw"],
       [long |-> "min-height", short |-> "mh"],
       [long |-> "zoom", short |-> "z"],
       [long |-> "dpr", short |-> "dpr"],
       [long |-> "enlarge", short |-> "el"],
       [long |-> "extend", short |-> "ex"],
       [long |-> "extend_aspect_ratio", short |-> "ea"],
       [long |-> "gravity", short |-> "g"],
       [long |-> "crop", short |-> "c"],
       [long |-> "trim", short |-> "t"],
       [long |-> "padding", short |-> "p"],
       [long |-> "auto_rotate", short |-> "ar"],
       [long |-> "rotate", short |-> "ro"],
       [long |-> "background", short |-> "bg"],
       [long |-> "background_alpha", short |-> "ba"],
       [long |-> "adjust", short |-> "ad"],
       [long |-> "brightness", short |-> "br"],
       [long |-> "contrast", short |-> "co"],
       [long |-> "saturation", short |-> "sa"],
       [long |-> "blur", short |-> "bl"],
       [long |-> "sharpen", short |-> "sh"],
       [long |-> "pixelate", short |-> "px"],
       [long |-> "unsharp_masking", short |-> "um"],
       [long |-> "blur_detections", short |-> "bd"],
       [long |-> "draw_detections", short |-> "dd"],
       [long |-> "gradient", short |-> "gr"],
       [long |-> "watermark", short |-> "wm"],
       [long |-> "watermark_url", short |-> "wu"],
       [long |-> "watermark_text", short |-> "wt"],
       [long |-> "watermark_size", short |-> "ws"],
       [long |-> "watermark_rotate", short |-> "wr"],
       [long |-> "watermark_shadow", short |-> "wsh"],
       [long |-> "style", short |-> "st"],
       [long |-> "strip_metadata", short |-> "sm"],
       [long |-> "keep_copyright", short |-> "kc"],
       [long |-> "dpi", short |-> "dpi"],
       [long |-> "strip_color_profile", short |-> "scp"],
       [long |-> "enforce_thumbnail", short |-> "et"],
       [long |-> "quality", short |-> "q"],
       [long |-> "format_quality", short |-> "fq"],
       [long |-> "autoquality", short |-> "aq"],
       [long |-> "max_bytes", short |-> "mb"],
       [long |-> "jpeg_options", short |-> "jpeg_options"],
       [long |-> "png_options", short |-> "png_options"],
       [long |-> "webp_options", short |-> "webp_options"],
       [long |-> "format", short |-> "f"],
       [long |-> "page", short |-> "page"],
       [long |-> "pages", short |-> "pages"],
       [long |-> "disable_animation", short |-> "da"],
       [long |-> "video_thumbnail_second", short |-> "vts"],
       [long |-> "video_thumbnail_keyframes", short |-> "vtk"],
       [long |-> "video_thumbnail_tile", short |-> "vtt"],
       [long |-> "fallback_image_url", short |-> "fi"],
       [long |-> "skip_processing", short |-> "sp"],
       [long |-> "raw", short |-> "raw"],
       [long |-> "cachebuster", short |-> "cb"],
       [long |-> "expires", short |-> "exp"],
       [long |-> "filename", short |-> "fn"],
       [long |-> "return_attachment", short |-> "ra"],
       [long |-> "preset", short |-> "pr"],
       [long |-> "hashsum", short |-> "hs"],
       [long |-> "max_src_resolution", short |-> "msr"],
       [long |-> "max_src_file_size", short |-> "msfs"],
       [long |-> "max_animation_frames", short |-> "maf"],
       [long |-> "max_animation_frame_resolution", short |-> "mafr"]
  >>

\* Go's map index expression: the empty string for an absent key.
Get(m, k) == IF k \in DOMAIN m THEN m[k] ELSE ""

\* m[k] = v
Put(m, k, v) == (k :> v) @@ m

\* delete(m, k)
Delete(m, k) == [x \in (DOMAIN m) \ {k} |-> m[x]]

\* TLC evaluates an operator argument when it is first used.  A loop written
\* as a recursion over its state would so build a chain of pending states as
\* long as the loop and evaluate it recursively at the end; Evaluated(v) in
\* the loop's guard makes the state a value before the next iteration.
Evaluated(v) == v = v

RECURSIVE processOptionMapRange(_, _, _, _)
\* The loop of processOptionMap over opts[lo..hi], in table order, from the
\* map built so far: the first half of the range, then the second half on
\* what the first half built.
processOptionMapRange(opts, lo, hi, built) ==
  IF Evaluated(built) /\ lo < hi
  THEN LET mid == (lo + hi) \div 2
       IN  processOptionMapRange(opts, mid + 1, hi,
             processOptionMapRange(opts, lo, mid, built))
  ELSE IF lo = hi THEN Put(built, opts[lo].long, opts[lo].short)
  ELSE built

\* The long name -> short code map.
processOptionMap(opts) == processOptionMapRange(opts, 1, Len(opts), <<>>)

optionMap == processOptionMap(allOptions)

insecureSignature == "insecure"

----------------------------------------------------------------------------
(* The signature generator.                                                *)

\* The digest length of SHA-256, in bytes.
DigestSize == 32

RECURSIVE WeightedSum(_, _, _)
\* Sum of (b[n] + 1) * (n * n + n + 41) for n in lo..hi.
WeightedSum(b, lo, hi) ==
  IF lo > hi THEN 0
  ELSE IF lo = hi THEN (b[lo] + 1) * (lo * lo + lo + 41)
  ELSE LET mid == (lo + hi) \div 2
       IN  WeightedSum(b, lo, mid) + WeightedSum(b, mid + 1, hi)

\* hmac.New(sha256.New, key), Write(written), Sum(nil): HMAC-SHA256 is library
\* code, taken here as a fixed function from the key and the bytes written to
\* DigestSize bytes that depends on every byte and its position in both.
hmacSum(hmacKey, written) ==
  LET k == WeightedSum(hmacKey, 1, Len(hmacKey)) % 65521
      w == WeightedSum(written, 1, Len(written)) % 65521
  IN  [n \in 1..DigestSize |->
         (k * (2 * n + 1) + w * (2 * n + 3) + 17 * n * n + 89) % 256]

\* A mutant of getSignatureHash: the digest is not truncated.
getSignatureHash_whole(hmacKey, hmacSalt, signatureSize, payload) ==
  RawEncode(URLAlphabet, hmacSum(hmacKey, hmacSalt \o Bytes(payload)))

\* The salt is written first, then the payload; the digest is cut to its first
\* signatureSize bytes and encoded in unpadded URL-safe base64.
getSignatureHash(hmacKey, hmacSalt, signatureSize, payload) ==
  RawEncode(URLAlphabet,
    SubSeq(hmacSum(hmacKey, hmacSalt \o Bytes(payload)), 1, signatureSize))

----------------------------------------------------------------------------
(* Generate.                                                               *)

\* A mutant of registryStep: the separator after the segment is forgotten.
registryStep_noslash(o, n, st) ==
  LET long == Get(st.opts, o.long)
      option == IF Len(long) = 0 THEN Get(st.opts, o.short) ELSE long
  IN  IF Len(option) = 0 THEN st
      ELSE [options |-> st.options \o o.short \o ":" \o option,
            opts |-> Delete(Delete(st.opts, o.short), o.long),
            emitted |-> Append(st.emitted, [o |-> n, option |-> option])]

\* A mutant of registryStep: only the long name is deleted.
registryStep_keepshort(o, n, st) ==
  LET long == Get(st.opts, o.long)
      option == IF Len(long) = 0 THEN Get(st.opts, o.short) ELSE long
  IN  IF Len(option) = 0 THEN st
      ELSE [options |-> st.options \o o.short \o ":" \o option \o "/",
            opts |-> Delete(st.opts, o.long),
            emitted |-> Append(st.emitted, [o |-> n, option |-> option])]

\* The body of the loop over allOptions, for the n-th descriptor o. st holds
\* the locals options and opts; emitted records which descriptors appended a
\* segment, and with which value.
registryStep(o, n, st) ==
  LET long == Get(st.opts, o.long)
      option == IF Len(long) = 0 THEN Get(st.opts, o.short) ELSE long
  IN  IF Len(option) = 0 THEN st
      ELSE [options |-> st.options \o o.short \o ":" \o option \o "/",
            opts |-> Delete(Delete(st.opts, o.short), o.long),
            emitted |-> Append(st.emitted, [o |-> n, option |-> option])]

RECURSIVE registryRange(_, _, _)
\* The loop over allOptions[lo..hi], in table order: the first half of the
\* range, then the second half on the state the first half leaves.
registryRange(lo, hi, st) ==
  IF Evaluated(st) /\ lo < hi
  THEN LET mid == (lo + hi) \div 2
       IN  registryRange(mid + 1, hi, registryRange(lo, mid, st))
  ELSE IF lo = hi THEN registryStep(allOptions[lo], lo, st)
  ELSE st

\* The registry pass on the map opts, starting from options = "/".
registryPass(opts) ==
  registryRange(1, Len(allOptions), [options |-> "/", opts |-> opts, emitted |-> <<>>])

\* The orders in which a range over a map with the key set S may yield its
\* keys: Go leaves the iteration order of a map unspecified.
IterationOrders(S) ==
  {ks \in [1..Cardinality(S) -> S] : \A a, b \in DOMAIN ks : ks[a] = ks[b] => a = b}

RECURSIVE InsertSorted(_, _)
InsertSorted(sorted, k) ==
  IF Len(sorted) = 0 THEN <<k>>
  ELSE IF StrLess(k, Head(sorted)) THEN <<k>> \o sorted
  ELSE <<Head(sorted)>> \o InsertSorted(Tail(sorted), k)

\* A mutant of SortStrings: the keys are left in the order of the iteration.
SortStrings_unsorted(keys) == keys

RECURSIVE SortStrings(_)
\* sort.Strings(keys): ascending byte-wise order.
SortStrings(keys) ==
  IF Len(keys) = 0 THEN <<>>
  ELSE InsertSorted(SortStrings(SubSeq(keys, 1, Len(keys) - 1)), keys[Len(keys)])

RECURSIVE leftoverFrom(_, _, _, _)
\* The loop over the sorted keys from keys[n] on. The loop variable key is
\* overwritten with the short code when the alias map has one, and the value
\* is then read from opts under the overwritten key.
leftoverFrom(keys, n, opts, st) ==
  IF Evaluated(st) /\ n <= Len(keys)
  THEN LET short == Get(optionMap, keys[n])
           k == IF Len(short) > 0 THEN short ELSE keys[n]
       IN  leftoverFrom(keys, n + 1, opts,
             [options |-> st.options \o k \o ":" \o Get(opts, k) \o "/",
              leftover |-> Append(st.leftover,
                 [from |-> keys[n], key |-> k, value |-> Get(opts, k)])])
  ELSE st

\* The path encoder: unpadded standard base64 of the bytes of uri, or the
\* plain/ prefix.
encodeURI(EncodePath, uri) ==
  IF EncodePath THEN RawEncode(StdAlphabet, Bytes(uri)) ELSE "plain/" \o uri

\* A mutant of unsigned: one empty secret is enough to skip the signature.
unsigned_either(k, s) == Len(s) = 0 \/ Len(k) = 0

\* The test that returns the insecure URL.
unsigned(k, s) == Len(s) = 0 /\ Len(k) = 0

\* What Generate computes after the registry pass has left reg, from the
\* configuration (c, k, s), the argument uri and the order keys in which the
\* map yields its remaining keys: the locals at the return, the map left
\* behind, the returned URL.
generateFrom(c, k, s, reg, uri, keys) ==
  LET left == leftoverFrom(SortStrings(keys), 1, reg.opts,
                [options |-> reg.options, leftover |-> <<>>])
      uriWithOptions == left.options \o encodeURI(c.EncodePath, uri)
      signature == IF unsigned(k, s) THEN insecureSignature
                   ELSE getSignatureHash(k, s, c.SignatureSize, uriWithOptions)
  IN  [opts |-> reg.opts,
       emitted |-> reg.emitted,
       leftover |-> left.leftover,
       options |-> left.options,
       signed |-> ~unsigned(k, s),
       signature |-> signature,
       url |-> c.BaseURL \o signature \o uriWithOptions]

\* One call of Generate on the builder (c, k, s, opts).
generate(c, k, s, opts, uri, keys) ==
  generateFrom(c, k, s, registryPass(opts), uri, keys)

----------------------------------------------------------------------------
(* The typed builders.                                                     *)

\* GravitySetter values: a GravityEnum, an OffsetGravity or a FocusPoint.
GravityEnum(g) == [kind |-> "GravityEnum", Type |-> g, X |-> 0, Y |-> 0]
OffsetGravity(t, x, y) == [kind |-> "OffsetGravity", Type |-> t, X |-> x, Y |-> y]
FocusPoint(x, y) == [kind |-> "FocusPoint", Type |-> "", X |-> x, Y |-> y]

GetStringOption(g) ==
  IF g.kind = "GravityEnum" THEN g.Type
  ELSE IF g.kind = "OffsetGravity" THEN g.Type \o ":" \o Itoa(g.X) \o ":" \o Itoa(g.Y)
  ELSE "fp:" \o Itoa(g.X) \o ":" \o Itoa(g.Y)

\* The key SetGravityOption stores the value under: a GravityEnum uses the
\* short code, the two other setters the long name.
GravityKey(g) == IF g.kind = "GravityEnum" THEN "g" ELSE "gravity"

----------------------------------------------------------------------------
(* Bounds and inputs of the model.                                         *)

\* The largest number of entries the OptionSet holds.
MaxOpts == 3

BaseURLs == {"https://img.example.com/"}
Secrets == {<<>>, <<115, 51>>}
SourceURIs == {"a.jpg", "s3://b/i.png"}

\* The (key, value) arguments of SetOption: both names of a descriptor, the
\* three names of the two descriptors that share a short code, two keys that
\* match no descriptor, and empty and different values.
OptionInputs ==
  {<<"width", "1">>, <<"width", "">>, <<"w", "1">>,
   <<"resizing_algorithm", "1">>, <<"return_attachment", "1">>,
   <<"ra", "1">>, <<"ra", "2">>, <<"ra", "">>,
   <<"customtag", "1">>, <<"abc", "1">>, <<"abc", "">>}
GravitySetters == {GravityEnum("ce"), OffsetGravity("no", 1, -2)}

\* The inputs of the specification that compares insertion orders.
OrderInputs ==
  {<<"width", "1">>, <<"width", "">>, <<"height", "1">>, <<"customtag", "1">>,
   <<"abc", "1">>}

\* The inputs of the specification of the signature sizes.
SignInputs == {<<"width", "1">>, <<"customtag", "1">>}

----------------------------------------------------------------------------
(* The state: the configuration of the builder (cfg, key, salt), its       *)
(* OptionSet (Options), and what the last call returned (last), with the   *)
(* locals of Generate at its return.  order and first are history          *)
(* variables: the live keys of the map in the order they were inserted,    *)
(* and the first Generate call of the behaviour.                           *)

NoRun ==
  [done |-> FALSE, again |-> FALSE, pre |-> <<>>, precfg |-> <<>>, inserted |-> <<>>,
   uri |-> "", opts |-> <<>>, emitted |-> <<>>, leftover |-> <<>>, options |-> "",
   signed |-> FALSE, signature |-> "", url |-> ""]

InitWith(urls, sizes, modes, secrets) ==
  /\ cfg \in [BaseURL : urls, SignatureSize : sizes, EncodePath : modes]
  /\ \E ks \in secrets : key = ks[1] /\ salt = ks[2]
  /\ Options = <<>>
  /\ last = NoRun
  /\ order = <<>>
  /\ first = NoRun

Init == InitWith(BaseURLs, {8}, BOOLEAN, Secrets \X Secrets)

InitOrder == InitWith(BaseURLs, {8}, {FALSE}, {<< <<>>, <<>> >>})

InitSign ==
  InitWith(BaseURLs, 1..DigestSize, {FALSE}, (Secrets \X Secrets) \ {<< <<>>, <<>> >>})

HasRoom(k) == Cardinality(DOMAIN Options \cup {k}) <= MaxOpts

\* i.Options[key] = value
SetOption(k, value) ==
  /\ Options' = Put(Options, k, value)
  /\ last' = NoRun
  /\ UNCHANGED <<cfg, key, salt>>

Gravity(g) == SetOption(GravityKey(g), GetStringOption(g))

Generate(uri) ==
  \E reg \in {registryPass(Options)} :
    \E keys \in IterationOrders(DOMAIN reg.opts) :
      \E r \in {generateFrom(cfg, key, salt, reg, uri, keys)} :
        /\ Options' = r.opts
        /\ last' = [done |-> TRUE, again |-> last.done, pre |-> Options,
                    precfg |-> <<cfg, key, salt>>, inserted |-> order, uri |-> uri,
                    opts |-> r.opts, emitted |-> r.emitted, leftover |-> r.leftover,
                    options |-> r.options, signed |-> r.signed,
                    signature |-> r.signature, url |-> r.url]
        /\ UNCHANGED <<cfg, key, salt>>

\* The history variables.
Untracked == UNCHANGED <<order, first>>

Tracked ==
  /\ order' = LET live(k) == k \in DOMAIN Options'
                  kept == SelectSeq(order, live)
              IN  kept \o (IF \E k \in DOMAIN Options' : k \notin DOMAIN Options
                           THEN <<CHOOSE k \in DOMAIN Options' : k \notin DOMAIN Options>>
                           ELSE <<>>)
  /\ first' = IF first.done \/ ~last'.done THEN first ELSE last'

Next ==
  \/ \E in \in OptionInputs : HasRoom(in[1]) /\ SetOption(in[1], in[2]) /\ Untracked
  \/ \E g \in GravitySetters : HasRoom(GravityKey(g)) /\ Gravity(g) /\ Untracked
  \/ \E uri \in SourceURIs : Generate(uri) /\ Untracked

Spec == Init /\ [][Next]_vars

NextOrder ==
  \/ \E in \in OrderInputs : HasRoom(in[1]) /\ SetOption(in[1], in[2]) /\ Tracked
  \/ Generate("a.jpg") /\ Tracked

SpecOrder == InitOrder /\ [][NextOrder]_vars

NextSign ==
  \/ \E in \in SignInputs : HasRoom(in[1]) /\ SetOption(in[1], in[2]) /\ Untracked
  \/ \E uri \in SourceURIs : Generate(uri) /\ Untracked

SpecSign == InitSign /\ [][NextSign]_vars

----------------------------------------------------------------------------
(* What the properties below read off a returned URL and off the locals    *)
(* of the last Generate call.                                              *)

N == Len(allOptions)

IsLong(k) == \E d \in 1..N : allOptions[d].long = k
IsShort(k) == \E d \in 1..N : allOptions[d].short = k
Registered(k) == IsLong(k) \/ IsShort(k)

\* The first descriptor one of whose names is k.
DescriptorOf(k) ==
  CHOOSE d \in 1..N :
    /\ k \in {allOptions[d].long, allOptions[d].short}
    /\ \A e \in 1..(d - 1) : k \notin {allOptions[e].long, allOptions[e].short}

\* The segments of the options path of the last call, in the order they were
\* appended: pass is the loop that appended the segment, about the OptionSet
\* key (leftover pass) or the descriptor (registry pass) it was appended for.
RegistrySegments ==
  [n \in 1..Len(last.emitted) |->
     [pass |-> "registry", o |-> last.emitted[n].o,
      key |-> allOptions[last.emitted[n].o].short, value |-> last.emitted[n].option]]

LeftoverSegments ==
  [n \in 1..Len(last.leftover) |->
     [pass |-> "leftover",
      o |-> IF Registered(last.leftover[n].from)
            THEN DescriptorOf(last.leftover[n].from) ELSE 0,
      key |-> last.leftover[n].key, value |-> last.leftover[n].value]]

Segments == RegistrySegments \o LeftoverSegments

RECURSIVE Join(_)
\* key:value/ for each segment, in order.
Join(segs) ==
  IF Len(segs) = 0 THEN ""
  ELSE Head(segs).key \o ":" \o Head(segs).value \o "/" \o Join(Tail(segs))

\* The text of url after the prefix of length n.
After(url, n) == SubSeq(url, n + 1, Len(url))

\* The signature field of a returned URL: what follows the base URL, up to
\* the first slash.
SignatureField(url) ==
  LET rest == After(url, Len(cfg.BaseURL))
      stop == CHOOSE n \in 1..Len(rest) :
                /\ CharAt(rest, n) = "/"
                /\ \A m \in 1..(n - 1) : CharAt(rest, m) # "/"
  IN  SubSeq(rest, 1, stop - 1)

\* The path of a returned URL: from the slash that ends the signature field.
PathField(url) == After(url, Len(cfg.BaseURL) + Len(SignatureField(url)))

\* The bytes an unpadded base64 text stands for.
RawDecode(alphabet, text) ==
  LET v(n) == (CHOOSE m \in 1..64 : CharAt(alphabet, m) = CharAt(text, n)) - 1
  IN  [j \in 1..((Len(text) * 3) \div 4) |->
         LET at == ((j - 1) \div 3) * 4
         IN  CASE (j - 1) % 3 = 0 -> v(at + 1) * 4 + v(at + 2) \div 16
               [] (j - 1) % 3 = 1 -> (v(at + 2) % 16) * 16 + v(at + 3) \div 4
               [] OTHER -> (v(at + 3) % 4) * 64 + v(at + 4)]

\* The OptionSet m without the long name and the short code of the
\* descriptors in ds.
Without(m, ds) ==
  [k \in (DOMAIN m) \ UNION {{allOptions[d].long, allOptions[d].short} : d \in ds} |-> m[k]]

Emitting == {last.emitted[n].o : n \in 1..Len(last.emitted)}

----------------------------------------------------------------------------
(* C1.  A successful Generate returns baseURL ++ signature ++ P with       *)
(* P = optionsPath ++ encodedSource; optionsPath is a slash followed by    *)
(* each key:value segment followed by a slash (a lone slash without        *)
(* segments); encodedSource is plain/ ++ uri in plain mode; and a computed *)
(* signature is the signature of exactly the P that follows it.            *)
C1_URLShape ==
  last.done =>
    LET sig == SignatureField(last.url)
        P == PathField(last.url)
    IN  /\ last.url = cfg.BaseURL \o sig \o P
        /\ last.options = "/" \o Join(Segments)
        /\ CharAt(last.options, 1) = "/"
        /\ CharAt(last.options, Len(last.options)) = "/"
        /\ Len(Segments) = 0 => last.options = "/"
        /\ SubSeq(P, 1, Len(last.options)) = last.options
        /\ ~cfg.EncodePath => P = last.options \o "plain/" \o last.uri
        /\ cfg.EncodePath =>
             RawDecode(StdAlphabet, After(P, Len(last.options))) = Bytes(last.uri)
        /\ last.signed =>
             sig = RawEncode(URLAlphabet,
                     SubSeq(hmacSum(key, salt \o Bytes(P)), 1, cfg.SignatureSize))

\* A signed plain-mode URL with segments of both passes.
C1_Witness ==
  /\ last.done /\ last.signed /\ ~cfg.EncodePath
  /\ Len(last.emitted) >= 1 /\ Len(last.leftover) >= 1

(* C5.  The signature field is the literal insecure exactly when the key   *)
(* and the salt are both empty; otherwise it is the computed signature.    *)
C5_InsecureIff ==
  last.done =>
    LET sig == SignatureField(last.url)
        P == PathField(last.url)
    IN  /\ (Len(key) = 0 /\ Len(salt) = 0) <=> sig = "insecure"
        /\ (Len(key) > 0 \/ Len(salt) > 0) =>
             sig = RawEncode(URLAlphabet,
                     SubSeq(hmacSum(key, salt \o Bytes(P)), 1, cfg.SignatureSize))

\* A URL signed with a salt and no key.
C5_Witness == last.done /\ Len(key) = 0 /\ Len(salt) > 0 /\ Len(last.emitted) >= 1

(* C7.  With a key or a salt, the signature field decodes to exactly the   *)
(* first SignatureSize bytes of the digest, for each size in 1..32, and is *)
(* ceil(4 * SignatureSize / 3) characters long.                            *)
C7_Truncation ==
  (last.done /\ (Len(key) > 0 \/ Len(salt) > 0)) =>
    LET sig == SignatureField(last.url)
        P == PathField(last.url)
        size == cfg.SignatureSize
    IN  /\ size \in 1..DigestSize
        /\ RawDecode(URLAlphabet, sig) = SubSeq(hmacSum(key, salt \o Bytes(P)), 1, size)
        /\ Len(RawDecode(URLAlphabet, sig)) = size
        /\ Len(sig) = (4 * size + 2) \div 3

\* A signature of a size that is no multiple of three, over a path with a
\* segment.
C7_Witness ==
  /\ last.done /\ Len(key) > 0 /\ cfg.SignatureSize = 31 /\ Len(last.emitted) >= 1

C3_AliasEquivalence ==
  last.done =>
    \A d \in 1..N :
      LET long == allOptions[d].long
          short == allOptions[d].short
          v == Get(last.pre, long)
          byShort == Put(Delete(last.pre, long), short, v)
          reg == registryPass(byShort)
      IN  (long # short /\ v # "" /\ short \notin DOMAIN last.pre) =>
            /\ \E n \in 1..Len(Segments) : Segments[n].key = short /\ Segments[n].value = v
            /\ \E n \in 1..Len(reg.emitted) :
                 allOptions[reg.emitted[n].o].short = short /\ reg.emitted[n].option = v
            /\ \A keys \in IterationOrders(DOMAIN reg.opts) :
                 generateFrom(cfg, key, salt, reg, last.uri, keys).options = last.options

(* C4.  Every segment of a key that matches no descriptor comes after      *)
(* every segment of a registered option, and the segments of the keys      *)
(* that match no descriptor are in ascending byte order of their keys.     *)
(* This is the claim as stated: the segment of a registered key counts     *)
(* whichever pass emitted it.                                              *)
C4_LeftoverLast_AsClaimed ==
  last.done =>
    /\ \A a, b \in 1..Len(Segments) :
         (Segments[a].o = 0 /\ Segments[b].o > 0) => b < a
    /\ \A a, b \in 1..Len(last.leftover) :
         (a < b /\ ~Registered(last.leftover[a].from) /\ ~Registered(last.leftover[b].from))
            => StrLess(last.leftover[a].from, last.leftover[b].from)

(* C4 as amended: every segment of the leftover pass comes after every     *)
(* segment of the registry pass; the leftover segments are in ascending    *)
(* byte order of their OptionSet keys, which are the keys that match no    *)
(* descriptor and the registered keys left with an empty value; a key that *)
(* matches no descriptor is emitted as it is, with its value.              *)
C4_LeftoverLast ==
  last.done =>
    /\ last.options = "/" \o Join(RegistrySegments) \o Join(LeftoverSegments)
    /\ {last.leftover[n].from : n \in 1..Len(last.leftover)} = DOMAIN Options
    /\ \A a, b \in 1..Len(last.leftover) :
         a < b => StrLess(last.leftover[a].from, last.leftover[b].from)
    /\ \A n \in 1..Len(last.leftover) :
         LET k == last.leftover[n].from
         IN  /\ Registered(k) => last.pre[k] = ""
             /\ ~Registered(k) =>
                  last.leftover[n].key = k /\ last.leftover[n].value = last.pre[k]

\* A registry segment followed by the segments of two unregistered keys.
C4_Witness ==
  /\ last.done /\ Len(last.emitted) >= 1 /\ Len(last.leftover) = 2
  /\ \A n \in 1..2 : ~Registered(last.leftover[n].from)

(* C6.  After Generate the OptionSet is the one before the call without    *)
(* the two names of every descriptor that emitted in the registry pass,    *)
(* nothing else is removed, changed or added, the configuration is as      *)
(* before, and so a second Generate without re-population emits no         *)
(* segment of a registered option.  This is the claim as stated.           *)
C6_Drained_AsClaimed ==
  last.done =>
    /\ Options = Without(last.pre, Emitting)
    /\ <<cfg, key, salt>> = last.precfg
    /\ last.again => \A n \in 1..Len(Segments) : Segments[n].o = 0

(* C6 as amended: the same frame; a second Generate without re-population  *)
(* emits no segment in its registry pass, and leaves the OptionSet as it   *)
(* found it (a registered key left with an empty value is emitted again    *)
(* by the leftover pass).                                                  *)
C6_Drained ==
  last.done =>
    /\ Options = Without(last.pre, Emitting)
    /\ <<cfg, key, salt>> = last.precfg
    /\ last.again => (last.emitted = <<>> /\ Options = last.pre)

\* A call that removed the names of an emitting descriptor, both of them
\* set, and left another entry in the map.
C6_Witness ==
  /\ last.done /\ Len(last.emitted) = 1 /\ Options # <<>>
  /\ Cardinality(DOMAIN last.pre) = Cardinality(DOMAIN Options) + 2

(* C8.  A descriptor with non-empty values under both its names emits      *)
(* exactly one segment, with the value of the long name, and both keys are *)
(* removed; with the long name absent or empty, the value of the short     *)
(* code is emitted.                                                        *)
C8_LongNameWins ==
  last.done =>
    \A d \in 1..N :
      LET long == Get(last.pre, allOptions[d].long)
          short == Get(last.pre, allOptions[d].short)
      IN  /\ (long # "" /\ short # "") =>
               /\ Cardinality({n \in 1..Len(last.emitted) : last.emitted[n].o = d}) = 1
               /\ \E n \in 1..Len(last.emitted) :
                    last.emitted[n].o = d /\ last.emitted[n].option = long
               /\ allOptions[d].long \notin DOMAIN Options
               /\ allOptions[d].short \notin DOMAIN Options
          /\ (long = "" /\ short # "") =>
               \E n \in 1..Len(Segments) :
                 Segments[n].key = allOptions[d].short /\ Segments[n].value = short

(* C9.  Long names and short codes are unique in the registry, so no two   *)
(* descriptors emit segments with the same short code in one options path: *)
(* any two descriptors that emit in one call differ in both names.         *)
C9_UniqueCodes ==
  last.done =>
    \A a, b \in 1..Len(last.emitted) :
      a # b =>
        /\ allOptions[last.emitted[a].o].long # allOptions[last.emitted[b].o].long
        /\ allOptions[last.emitted[a].o].short # allOptions[last.emitted[b].o].short

(* C10.  A name of a descriptor that maps to the empty string, the other   *)
(* name being absent or empty too, is not emitted for in the registry pass *)
(* and not removed; the leftover pass emits one segment for the key, the   *)
(* short code with an empty value, after the registry segments.            *)
C10_EmptySurvives ==
  last.done =>
    \A d \in 1..N :
      \A k \in {allOptions[d].long, allOptions[d].short} \cap DOMAIN last.pre :
        (/\ Get(last.pre, allOptions[d].long) = ""
         /\ Get(last.pre, allOptions[d].short) = "") =>
          /\ d \notin Emitting
          /\ k \in DOMAIN Options
          /\ Cardinality({n \in 1..Len(last.leftover) : last.leftover[n].from = k}) = 1
          /\ \A n \in 1..Len(last.leftover) :
               last.leftover[n].from = k =>
                 /\ last.leftover[n].key = allOptions[d].short
                 /\ last.leftover[n].value = ""
                 /\ last.leftover[n].value = last.pre[k]
          /\ last.options = "/" \o Join(RegistrySegments) \o Join(LeftoverSegments)

====
